---- MODULE Spec2Model ----
(***************************************************************************)
(* BookingsController of apps/api/v2 (bookings.controller.ts): the five    *)
(* booking handlers (createBooking, cancelBooking, markNoShow,             *)
(* createRecurringBooking, createInstantBooking), the helpers getOwnerId,  *)
(* getOAuthClientsParams, createNextApiBookingRequest and                  *)
(* handleBookingErrors, and the module-level object                         *)
(* DEFAULT_PLATFORM_PARAMS that the helpers share.                         *)
(*                                                                         *)
(* Every `await` of the source is a scheduling point: a handler runs from  *)
(* one await to the next as one action, and handlers of different requests *)
(* interleave at these points (Node's single-threaded event loop).         *)
(***************************************************************************)
EXTENDS Integers, Sequences, FiniteSets, TLC

\* ------------------------------------------------------------------ bounds
\* Requests served in one behaviour.
MaxRequests == 3
\* Longest list handleNewRecurringBooking returns.
MaxRecurring == 2

\* ------------------------------------------------------- values and inputs
\* An optional value (undefined / null in the source): <<>> or <<v>>.
None == <<>>
Some(v) == <<v>>

\* The request slots: two requests can be in flight at once.
RequestIds == {"r1", "r2"}

Operations == {"create", "cancel", "noShow", "recurring", "instant"}
\* The operations that build their engine argument with createNextApiBookingRequest.
ContextOperations == {"create", "cancel", "recurring", "instant"}

\* The Authorization header after "Bearer " is removed: absent (or empty), an
\* API key (isApiKey), or an access token.
Credentials == {"absent", "apiKey", "accessToken"}

\* What ApiKeyRepository.getApiKeyFromHash / OAuthFlowService.getOwnerId do:
\* yield a user id or nothing, throw synchronously, or return a promise that
\* rejects.
OwnerIds == {7}
CollaboratorOutcomes ==
  { [kind |-> "value", v |-> Some(u)] : u \in OwnerIds }
    \cup { [kind |-> "value", v |-> None], [kind |-> "throw", v |-> None],
           [kind |-> "reject", v |-> None] }

\* The x-cal-client-id header: absent, or a client id. "A" and "B" have a
\* record in the OAuth client table, "X" has none.
NoClient == ""
ClientIds == {NoClient, "A", "B", "X"}
OAuthClients ==
  [ A |-> [ bookingCancelRedirectUri |-> Some("a/cancel"),
            bookingRescheduleRedirectUri |-> Some("a/reschedule"),
            bookingRedirectUri |-> Some("a/booking"),
            areEmailsEnabled |-> Some(TRUE) ],
    B |-> [ bookingCancelRedirectUri |-> Some("b/cancel"),
            bookingRescheduleRedirectUri |-> None,
            bookingRedirectUri |-> Some("b/booking"),
            areEmailsEnabled |-> Some(FALSE) ] ]

\* The :bookingId path parameter of cancel: absent/empty, or an id.
NoBookingId == ""
BookingIds == {NoBookingId, "12"}

\* ------------------------------------------------------------------ helpers
\* JavaScript truthiness of an optional number / string / Date.
TruthyNumber(o) == o # None /\ o[1] # 0
TruthyString(o) == o # None /\ o[1] # ""
TruthyDate(o) == o # None

\* a ?? b
Coalesce(o, d) == IF o = None THEN d ELSE o[1]

\* DEFAULT_PLATFORM_PARAMS as the module defines it (platformBookingLocation,
\* always overwritten by the caller's argument, is left out).
InitialPlatformParams ==
  [ platformClientId |-> "",
    platformCancelUrl |-> "",
    platformRescheduleUrl |-> "",
    platformBookingUrl |-> "",
    arePlatformEmailsEnabled |-> FALSE ]

VARIABLES
  DEFAULT_PLATFORM_PARAMS, \* the module-level object, shared by all requests
  started,                 \* requests received so far
  pc,                      \* where each request's handler is suspended
  op,                      \* the handler of each request
  cred,                    \* its Authorization credential
  clientId,                \* its x-cal-client-id
  bookingId,               \* its :bookingId (cancel)
  ownerRes,                \* what its last getOwnerId call produced
  partnerRes,              \* what its getOAuthClient lookup produced
  ctx,                     \* the request as handed to the engine
  engine,                  \* its engine call: name, state, result (or the value thrown)
  bills,                   \* the billing calls it issued, in order
  outcome                  \* how the handler ended

vars == << DEFAULT_PLATFORM_PARAMS, started, pc, op, cred, clientId, bookingId,
           ownerRes, partnerRes, ctx, engine, bills, outcome >>

NoOwnerRes == [kind |-> "none", v |-> None]
NoCtx == [handed |-> FALSE]
NoEngine == [call |-> "none", state |-> "none", result |-> None, now |-> 0]
NoOutcome == [kind |-> "none", statusCode |-> 0, message |-> "", data |-> None]

Init ==
  /\ DEFAULT_PLATFORM_PARAMS = InitialPlatformParams
  /\ started = 0
  /\ pc = [r \in RequestIds |-> "idle"]
  /\ op = [r \in RequestIds |-> "create"]
  /\ cred = [r \in RequestIds |-> "absent"]
  /\ clientId = [r \in RequestIds |-> NoClient]
  /\ bookingId = [r \in RequestIds |-> NoBookingId]
  /\ ownerRes = [r \in RequestIds |-> NoOwnerRes]
  /\ partnerRes = [r \in RequestIds |-> "none"]
  /\ ctx = [r \in RequestIds |-> NoCtx]
  /\ engine = [r \in RequestIds |-> NoEngine]
  /\ bills = [r \in RequestIds |-> << >>]
  /\ outcome = [r \in RequestIds |-> NoOutcome]

\* ------------------------------------------------------- collaborators' data
\* What an engine call or a billing call can throw: an HttpError, an Error
\* (new Error() has the message ""), or a value that is no Error at all.
HttpErrorValue(code, msg) == [class |-> "HttpError", statusCode |-> Some(code), message |-> Some(msg)]
ErrorValue(msg) == [class |-> "Error", statusCode |-> None, message |-> Some(msg)]
NonErrorValue == [class |-> "other", statusCode |-> None, message |-> None]
\* An Error whose message was set to undefined.
ErrorWithoutMessage == [class |-> "Error", statusCode |-> None, message |-> None]
ThrownValues ==
  { HttpErrorValue(409, "slot taken"), ErrorValue("db down"), ErrorValue(""),
    ErrorWithoutMessage, NonErrorValue }
\* The reason OAuthFlowService.getOwnerId rejects with.
IntrospectionError == ErrorValue("invalid access token")

BookingUids == {"u1"}
StartTimes == {1000}
\* new Date() read after handleInstantMeeting returned, in seconds.
ClockReadings == {0, 55}

OptionalOf(S) == {None} \cup {Some(v) : v \in S}

\* BookingResponse of handleNewBooking.
BookingResponses ==
  [ userId : OptionalOf(OwnerIds), uid : OptionalOf(BookingUids),
    startTime : OptionalOf(StartTimes), fromReschedule : OptionalOf({"u0"}) ]
\* The bookings handleNewRecurringBooking returns: complete, or short of one of
\* the three fields the controller tests.
RecurringResponses ==
  { b \in BookingResponses :
      /\ b.fromReschedule = None
      /\ Cardinality({f \in {"userId", "uid", "startTime"} : b[f] = None}) <= 1 }
RecurringLists == UNION { [1..n -> RecurringResponses] : n \in 0..MaxRecurring }
InstantResponses == [ userId : OptionalOf(OwnerIds), bookingUid : OptionalOf(BookingUids) ]
CancelResponses == [ bookingId : {12}, bookingUid : BookingUids, onlyRemovedAttendee : BOOLEAN ]
NoShowResponses == { [message |-> "marked"] }

EngineResults(o) ==
  CASE o = "create" -> BookingResponses
    [] o = "recurring" -> RecurringLists
    [] o = "instant" -> InstantResponses
    [] o = "cancel" -> CancelResponses
    [] OTHER -> NoShowResponses

\* The engine function each handler calls.
EngineCallOf(o) ==
  CASE o = "create" -> "handleNewBooking"
    [] o = "recurring" -> "handleNewRecurringBooking"
    [] o = "instant" -> "handleInstantMeeting"
    [] o = "cancel" -> "handleCancelBooking"
    [] OTHER -> "handleMarkNoShow"

\* The `type` argument each handler gives handleBookingErrors ("" is undefined).
ErrorTypeOf(o) ==
  CASE o = "recurring" -> "recurring"
    [] o = "instant" -> "instant"
    [] o = "noShow" -> "no-show"
    [] OTHER -> ""

\* parseInt(bookingId)
ParseInt(s) == CASE s = "12" -> 12 [] OTHER -> 0

\* --------------------------------------------------------- handleBookingErrors
ClassifiedError(code, msg) ==
  [kind |-> "HttpException", statusCode |-> code, message |-> msg, data |-> None]

errMsg(type) ==
  IF type = "no-show"
    THEN "Error while marking no-show."
    ELSE "Error while creating " \o (IF type # "" THEN type \o " " ELSE "") \o "booking."

\* handleBookingErrors with every error answered as a server failure.
handleBookingErrorsAlways500(err, type) ==
  IF err.class \in {"HttpError", "Error"}
    THEN ClassifiedError(500, Coalesce(err.message, errMsg(type)))
    ELSE ClassifiedError(500, errMsg(type))

\* Always throws: the value is the exception thrown.
handleBookingErrors(err, type) ==
  IF err.class = "HttpError"
    THEN ClassifiedError(Coalesce(err.statusCode, 500), Coalesce(err.message, errMsg(type)))
    ELSE IF err.class = "Error"
      THEN ClassifiedError(500, Coalesce(err.message, errMsg(type)))
      ELSE ClassifiedError(500, errMsg(type))

\* ------------------------------------------------------------------ getOwnerId
\* The collaborator outcomes a credential can meet: none is called without a
\* bearer token.
OutcomesFor(c) ==
  IF c = "absent" THEN { [kind |-> "value", v |-> None] } ELSE CollaboratorOutcomes

\* The promise getOwnerId returns: fulfilled with a user id or undefined
\* ("ok"), or rejected ("raise"). The API-key lookup is awaited inside the
\* try; the access-token promise is returned without await, so its rejection
\* is not caught.
getOwnerId(c, out) ==
  IF c = "absent"
    THEN [kind |-> "ok", v |-> None]
    ELSE IF c = "apiKey"
      THEN IF out.kind = "value" THEN [kind |-> "ok", v |-> out.v]
                                 ELSE [kind |-> "ok", v |-> None]
      ELSE CASE out.kind = "value" -> [kind |-> "ok", v |-> out.v]
             [] out.kind = "throw" -> [kind |-> "ok", v |-> None]
             [] OTHER -> [kind |-> "raise", v |-> None]

\* ------------------------------------------------------- getOAuthClientsParams
\* The assignments of lines 327-331 to the object `res` refers to.
WriteClientParams(res, id, client) ==
  [ res EXCEPT
      !.platformClientId = id,
      !.platformCancelUrl = Coalesce(client.bookingCancelRedirectUri, ""),
      !.platformRescheduleUrl = Coalesce(client.bookingRescheduleRedirectUri, ""),
      !.platformBookingUrl = Coalesce(client.bookingRedirectUri, ""),
      !.arePlatformEmailsEnabled = Coalesce(client.areEmailsEnabled, FALSE) ]

\* AssembleRequest with no -1 for an unresolved owner.
AssembleRequestNoSentinel(owner, oAuthParams, bodyId) ==
  [ handed |-> TRUE,
    userId |-> Coalesce(owner, 0),
    platformClientId |-> oAuthParams.platformClientId,
    platformCancelUrl |-> oAuthParams.platformCancelUrl,
    platformRescheduleUrl |-> oAuthParams.platformRescheduleUrl,
    platformBookingUrl |-> oAuthParams.platformBookingUrl,
    arePlatformEmailsEnabled |-> oAuthParams.arePlatformEmailsEnabled,
    noEmail |-> ~oAuthParams.arePlatformEmailsEnabled,
    bodyId |-> bodyId ]

\* ------------------------------------------------- createNextApiBookingRequest
\* Object.assign(req, { userId, ...oAuthParams }) and req.body.noEmail, with
\* req.body.id as cancelBooking set it.
AssembleRequest(owner, oAuthParams, bodyId) ==
  [ handed |-> TRUE,
    userId |-> Coalesce(owner, -1),
    platformClientId |-> oAuthParams.platformClientId,
    platformCancelUrl |-> oAuthParams.platformCancelUrl,
    platformRescheduleUrl |-> oAuthParams.platformRescheduleUrl,
    platformBookingUrl |-> oAuthParams.platformBookingUrl,
    arePlatformEmailsEnabled |-> oAuthParams.arePlatformEmailsEnabled,
    noEmail |-> ~oAuthParams.arePlatformEmailsEnabled,
    bodyId |-> bodyId ]

\* ---------------------------------------------------------------- billing
IncreaseUsage(userId, uid, startTime, fromReschedule) ==
  [ fn |-> "increaseUsageByUserId", userId |-> userId, uid |-> uid,
    startTime |-> startTime, fromReschedule |-> fromReschedule, status |-> "pending" ]
CancelUsage(uid) ==
  [ fn |-> "cancelUsageByBookingUid", userId |-> 0, uid |-> uid,
    startTime |-> 0, fromReschedule |-> None, status |-> "pending" ]

\* The test of lines 166 and 251.
BookingIsBillable(b) ==
  TruthyNumber(b.userId) /\ TruthyString(b.uid) /\ TruthyDate(b.startTime)
\* The test of line 282.
InstantIsBillable(m) == TruthyNumber(m.userId) /\ TruthyString(m.bookingUid)

\* The 10 seconds of line 285.
UsageDelaySeconds == 10

\* Date.getSeconds / Date.setSeconds on a time in seconds: setSeconds carries
\* a value over 59 into the minutes.
GetSeconds(t) == t % 60
SetSeconds(t, sec) == (t - GetSeconds(t)) + sec

\* The clock reading with the delay left out.
DelayedClockUnshifted(now) == SetSeconds(now, GetSeconds(now))

\* now.setSeconds(now.getSeconds() + 10)
DelayedClock(now) == SetSeconds(now, GetSeconds(now) + UsageDelaySeconds)

\* createdBookings.forEach stopping after its first callback.
RecurringUsageCallsFirstOnly(list) ==
  IF list = << >> THEN << >>
  ELSE LET b == Head(list)
       IN IF BookingIsBillable(b)
            THEN << IncreaseUsage(b.userId[1], b.uid[1], b.startTime[1], None) >>
            ELSE << >>

RECURSIVE RecurringUsageCalls(_)
\* createdBookings.forEach: one call per billable booking, in list order.
RecurringUsageCalls(list) ==
  IF list = << >> THEN << >>
  ELSE LET b == Head(list)
       IN (IF BookingIsBillable(b)
             THEN << IncreaseUsage(b.userId[1], b.uid[1], b.startTime[1], None) >>
             ELSE << >>) \o RecurringUsageCalls(Tail(list))


\* UsageCalls with createBooking dropping fromReschedule, as the recurring
\* handler does.
UsageCallsNoReschedule(o, res, now) ==
  CASE o = "create" ->
         IF BookingIsBillable(res)
           THEN << IncreaseUsage(res.userId[1], res.uid[1], res.startTime[1], None) >>
           ELSE << >>
    [] o = "recurring" -> RecurringUsageCalls(res)
    [] o = "instant" ->
         IF InstantIsBillable(res)
           THEN << IncreaseUsage(res.userId[1], res.bookingUid[1], DelayedClock(now), None) >>
           ELSE << >>
    [] o = "cancel" ->
         IF ~res.onlyRemovedAttendee THEN << CancelUsage(res.bookingUid) >> ELSE << >>
    [] OTHER -> << >>

\* UsageCalls with cancelBooking's test of onlyRemovedAttendee left out.
UsageCallsCancelAlways(o, res, now) ==
  CASE o = "create" ->
         IF BookingIsBillable(res)
           THEN << IncreaseUsage(res.userId[1], res.uid[1], res.startTime[1], res.fromReschedule) >>
           ELSE << >>
    [] o = "recurring" -> RecurringUsageCalls(res)
    [] o = "instant" ->
         IF InstantIsBillable(res)
           THEN << IncreaseUsage(res.userId[1], res.bookingUid[1], DelayedClock(now), None) >>
           ELSE << >>
    [] o = "cancel" -> << CancelUsage(res.bookingUid) >>
    [] OTHER -> << >>

\* UsageCalls with markNoShow cancelling the usage of the booking.
UsageCallsNoShowBilled(o, res, now) ==
  CASE o = "create" ->
         IF BookingIsBillable(res)
           THEN << IncreaseUsage(res.userId[1], res.uid[1], res.startTime[1], res.fromReschedule) >>
           ELSE << >>
    [] o = "recurring" -> RecurringUsageCalls(res)
    [] o = "instant" ->
         IF InstantIsBillable(res)
           THEN << IncreaseUsage(res.userId[1], res.bookingUid[1], DelayedClock(now), None) >>
           ELSE << >>
    [] o = "cancel" ->
         IF ~res.onlyRemovedAttendee THEN << CancelUsage(res.bookingUid) >> ELSE << >>
    [] OTHER -> << CancelUsage("u1") >>

\* The billing calls a handler issues once its engine call returned `res`.
UsageCalls(o, res, now) ==
  CASE o = "create" ->
         IF BookingIsBillable(res)
           THEN << IncreaseUsage(res.userId[1], res.uid[1], res.startTime[1], res.fromReschedule) >>
           ELSE << >>
    [] o = "recurring" -> RecurringUsageCalls(res)
    [] o = "instant" ->
         IF InstantIsBillable(res)
           THEN << IncreaseUsage(res.userId[1], res.bookingUid[1], DelayedClock(now), None) >>
           ELSE << >>
    [] o = "cancel" ->
         IF ~res.onlyRemovedAttendee THEN << CancelUsage(res.bookingUid) >> ELSE << >>
    [] OTHER -> << >>

\* The `data` of the success envelope.
SuccessEnvelope(res) ==
  [kind |-> "success", statusCode |-> 200, message |-> "", data |-> Some(res)]

\* ------------------------------------------------------------------ actions
\* The handler's code from the end of getOwnerId (inside
\* createNextApiBookingRequest) with no client id: oAuthParams is
\* DEFAULT_PLATFORM_PARAMS itself, the request is assembled and the engine is
\* called with it.
CallEngine(r, owner, oAuthParams) ==
  /\ ctx' = [ctx EXCEPT ![r] =
               AssembleRequest(owner, oAuthParams,
                               IF op[r] = "cancel" THEN ParseInt(bookingId[r]) ELSE 0)]
  /\ engine' = [engine EXCEPT ![r] =
                  [call |-> EngineCallOf(op[r]), state |-> "pending", result |-> None, now |-> 0]]
  /\ pc' = [pc EXCEPT ![r] = "engine"]


\* ReceiveRequest with cancelBooking's test of bookingId left out.
ReceiveRequestUnchecked(r, o, c, cl, b) ==
  /\ pc[r] = "idle"
  /\ started < MaxRequests
  /\ \A q \in RequestIds : pc[q] # "partnerReturned"
  /\ started' = started + 1
  /\ op' = [op EXCEPT ![r] = o]
  /\ cred' = [cred EXCEPT ![r] = c]
  /\ clientId' = [clientId EXCEPT ![r] = cl]
  /\ bookingId' = [bookingId EXCEPT ![r] = b]
  /\ IF o = "noShow"
       THEN /\ engine' = [engine EXCEPT ![r] =
                 [call |-> EngineCallOf(o), state |-> "pending", result |-> None, now |-> 0]]
            /\ pc' = [pc EXCEPT ![r] = "engine"]
       ELSE /\ pc' = [pc EXCEPT ![r] = IF o = "instant" THEN "ownerLookupFirst" ELSE "ownerLookup"]
            /\ UNCHANGED engine
  /\ UNCHANGED << DEFAULT_PLATFORM_PARAMS, ownerRes, partnerRes, ctx, bills, outcome >>

\* A request arrives and its handler runs to its first await (or to its end).
\* An arrival is a new event-loop task: none starts while a handler resumed by
\* `return res` (a queued microtask) is still to run.
ReceiveRequest(r, o, c, cl, b) ==
  /\ pc[r] = "idle"
  /\ started < MaxRequests
  /\ \A q \in RequestIds : pc[q] # "partnerReturned"
  /\ started' = started + 1
  /\ op' = [op EXCEPT ![r] = o]
  /\ cred' = [cred EXCEPT ![r] = c]
  /\ clientId' = [clientId EXCEPT ![r] = cl]
  /\ bookingId' = [bookingId EXCEPT ![r] = b]
  /\ IF o = "cancel" /\ ~TruthyString(Some(b))
       THEN \* throw new NotFoundException("Booking ID is required.")
            /\ outcome' = [outcome EXCEPT ![r] =
                 [kind |-> "NotFoundException", statusCode |-> 404,
                  message |-> "Booking ID is required.", data |-> None]]
            /\ pc' = [pc EXCEPT ![r] = "done"]
            /\ UNCHANGED engine
       ELSE IF o = "noShow"
         THEN \* handleMarkNoShow is called at once
              /\ engine' = [engine EXCEPT ![r] =
                   [call |-> EngineCallOf(o), state |-> "pending", result |-> None, now |-> 0]]
              /\ pc' = [pc EXCEPT ![r] = "engine"]
              /\ UNCHANGED outcome
         ELSE \* createInstantBooking calls getOwnerId before its try
              /\ pc' = [pc EXCEPT ![r] = IF o = "instant" THEN "ownerLookupFirst" ELSE "ownerLookup"]
              /\ UNCHANGED << engine, outcome >>
  /\ UNCHANGED << DEFAULT_PLATFORM_PARAMS, ownerRes, partnerRes, ctx, bills >>

\* The inputs a request of operation o can carry (markNoShow reads neither the
\* Authorization header nor the client id; only cancel has a booking id).
Receive(r) ==
  \E o \in Operations :
    \E c \in (IF o = "noShow" THEN {"absent"} ELSE Credentials) :
      \E cl \in (IF o = "noShow" THEN {NoClient} ELSE ClientIds) :
        \E b \in (IF o = "cancel" THEN BookingIds ELSE {NoBookingId}) :
          ReceiveRequest(r, o, c, cl, b)

\* OwnerLookupDone with getOAuthClientsParams not awaited: the engine is
\* called while the client lookup is still to settle.
OwnerLookupDoneNoPartnerAwait(r) ==
  /\ pc[r] \in {"ownerLookupFirst", "ownerLookup"}
  /\ \E out \in OutcomesFor(cred[r]) :
       LET res == getOwnerId(cred[r], out) IN
       /\ ownerRes' = [ownerRes EXCEPT ![r] = res]
       /\ IF res.kind = "raise"
            THEN /\ outcome' = [outcome EXCEPT ![r] =
                      IF pc[r] = "ownerLookupFirst"
                        THEN \* outside the try: the rejection leaves the handler as it is
                             [kind |-> "unhandled", statusCode |-> 0,
                              message |-> IntrospectionError.message[1], data |-> None]
                        ELSE handleBookingErrors(IntrospectionError, ErrorTypeOf(op[r]))]
                 /\ pc' = [pc EXCEPT ![r] = "done"]
                 /\ UNCHANGED << ctx, engine >>
            ELSE IF pc[r] = "ownerLookupFirst"
              THEN \* req.userId is set; createNextApiBookingRequest looks up again
                   /\ pc' = [pc EXCEPT ![r] = "ownerLookup"]
                   /\ UNCHANGED << ctx, engine, outcome >>
              ELSE /\ CallEngine(r, res.v, DEFAULT_PLATFORM_PARAMS)
                   /\ UNCHANGED outcome
  /\ UNCHANGED << DEFAULT_PLATFORM_PARAMS, started, op, cred, clientId, bookingId,
                  partnerRes, bills >>

\* A getOwnerId call of request r settles.
OwnerLookupDone(r) ==
  /\ pc[r] \in {"ownerLookupFirst", "ownerLookup"}
  /\ \E out \in OutcomesFor(cred[r]) :
       LET res == getOwnerId(cred[r], out) IN
       /\ ownerRes' = [ownerRes EXCEPT ![r] = res]
       /\ IF res.kind = "raise"
            THEN /\ outcome' = [outcome EXCEPT ![r] =
                      IF pc[r] = "ownerLookupFirst"
                        THEN \* outside the try: the rejection leaves the handler as it is
                             [kind |-> "unhandled", statusCode |-> 0,
                              message |-> IntrospectionError.message[1], data |-> None]
                        ELSE handleBookingErrors(IntrospectionError, ErrorTypeOf(op[r]))]
                 /\ pc' = [pc EXCEPT ![r] = "done"]
                 /\ UNCHANGED << ctx, engine >>
            ELSE IF pc[r] = "ownerLookupFirst"
              THEN \* req.userId is set; createNextApiBookingRequest looks up again
                   /\ pc' = [pc EXCEPT ![r] = "ownerLookup"]
                   /\ UNCHANGED << ctx, engine, outcome >>
              ELSE IF TruthyString(Some(clientId[r]))
                THEN \* getOAuthClientsParams awaits getOAuthClient
                     /\ pc' = [pc EXCEPT ![r] = "partnerLookup"]
                     /\ UNCHANGED << ctx, engine, outcome >>
                ELSE /\ CallEngine(r, res.v, DEFAULT_PLATFORM_PARAMS)
                     /\ UNCHANGED outcome
  /\ UNCHANGED << DEFAULT_PLATFORM_PARAMS, started, op, cred, clientId, bookingId,
                  partnerRes, bills >>

\* getOAuthClient settles and getOAuthClientsParams runs to its return: `res`
\* is DEFAULT_PLATFORM_PARAMS itself.
PartnerLookupDone(r) ==
  /\ pc[r] = "partnerLookup"
  /\ \E raises \in BOOLEAN :
       IF raises
         THEN /\ partnerRes' = [partnerRes EXCEPT ![r] = "raised"]
              /\ UNCHANGED DEFAULT_PLATFORM_PARAMS
         ELSE IF clientId[r] \in DOMAIN OAuthClients
           THEN /\ partnerRes' = [partnerRes EXCEPT ![r] = "found"]
                /\ DEFAULT_PLATFORM_PARAMS' =
                     WriteClientParams(DEFAULT_PLATFORM_PARAMS, clientId[r], OAuthClients[clientId[r]])
           ELSE /\ partnerRes' = [partnerRes EXCEPT ![r] = "missing"]
                /\ UNCHANGED DEFAULT_PLATFORM_PARAMS
  /\ pc' = [pc EXCEPT ![r] = "partnerReturned"]
  /\ UNCHANGED << started, op, cred, clientId, bookingId, ownerRes, ctx, engine, bills, outcome >>

\* createNextApiBookingRequest resumes after `await getOAuthClientsParams`:
\* it spreads the object the call returned, and the engine is called.
Assemble(r) ==
  /\ pc[r] = "partnerReturned"
  /\ CallEngine(r, ownerRes[r].v, DEFAULT_PLATFORM_PARAMS)
  /\ UNCHANGED << DEFAULT_PLATFORM_PARAMS, started, op, cred, clientId, bookingId,
                  ownerRes, partnerRes, bills, outcome >>

\* The engine call returns: the handler issues its billing calls and, unless
\* it awaits one, returns the success envelope.
EngineReturn(r) ==
  /\ pc[r] = "engine"
  /\ \E res \in EngineResults(op[r]) :
       \E now \in (IF op[r] = "instant" THEN ClockReadings ELSE {0}) :
         LET calls == UsageCalls(op[r], res, now) IN
         /\ engine' = [engine EXCEPT ![r].state = "ok", ![r].result = Some(res), ![r].now = now]
         /\ bills' = [bills EXCEPT ![r] = calls]
         /\ IF op[r] = "recurring" \/ calls = << >>
              THEN /\ outcome' = [outcome EXCEPT ![r] = SuccessEnvelope(res)]
                   /\ pc' = [pc EXCEPT ![r] = "done"]
              ELSE /\ pc' = [pc EXCEPT ![r] = "billing"]
                   /\ UNCHANGED outcome
  /\ UNCHANGED << DEFAULT_PLATFORM_PARAMS, started, op, cred, clientId, bookingId,
                  ownerRes, partnerRes, ctx >>


\* EngineRaise with the usage cancelled in the catch block.
EngineRaiseBilling(r) ==
  /\ pc[r] = "engine"
  /\ \E err \in ThrownValues :
       /\ engine' = [engine EXCEPT ![r].state = "failed", ![r].result = Some(err)]
       /\ outcome' = [outcome EXCEPT ![r] = handleBookingErrors(err, ErrorTypeOf(op[r]))]
  /\ bills' = [bills EXCEPT ![r] = << [CancelUsage("u1") EXCEPT !.status = "ok"] >>]
  /\ pc' = [pc EXCEPT ![r] = "done"]
  /\ UNCHANGED << DEFAULT_PLATFORM_PARAMS, started, op, cred, clientId, bookingId,
                  ownerRes, partnerRes, ctx >>

\* The engine call throws: the catch block hands the error to handleBookingErrors.
EngineRaise(r) ==
  /\ pc[r] = "engine"
  /\ \E err \in ThrownValues :
       /\ engine' = [engine EXCEPT ![r].state = "failed", ![r].result = Some(err)]
       /\ outcome' = [outcome EXCEPT ![r] = handleBookingErrors(err, ErrorTypeOf(op[r]))]
  /\ pc' = [pc EXCEPT ![r] = "done"]
  /\ UNCHANGED << DEFAULT_PLATFORM_PARAMS, started, op, cred, clientId, bookingId,
                  ownerRes, partnerRes, ctx, bills >>

\* BillingReturn with a failed billing call issued once more.
BillingReturnRetry(r) ==
  /\ pc[r] = "billing"
  /\ \/ /\ bills' = [bills EXCEPT ![r][Len(bills[r])].status = "ok"]
        /\ outcome' = [outcome EXCEPT ![r] = SuccessEnvelope(engine[r].result[1])]
        /\ pc' = [pc EXCEPT ![r] = "done"]
     \/ \E err \in ThrownValues :
          IF Len(bills[r]) < 2
            THEN /\ bills' = [bills EXCEPT ![r] =
                      << [bills[r][1] EXCEPT !.status = "failed"], bills[r][1] >>]
                 /\ UNCHANGED << outcome, pc >>
            ELSE /\ bills' = [bills EXCEPT ![r][Len(bills[r])].status = "failed"]
                 /\ outcome' = [outcome EXCEPT ![r] = handleBookingErrors(err, ErrorTypeOf(op[r]))]
                 /\ pc' = [pc EXCEPT ![r] = "done"]
  /\ UNCHANGED << DEFAULT_PLATFORM_PARAMS, started, op, cred, clientId, bookingId,
                  ownerRes, partnerRes, ctx, engine >>

\* The billing call a handler awaits settles.
BillingReturn(r) ==
  /\ pc[r] = "billing"
  /\ \/ /\ bills' = [bills EXCEPT ![r][1].status = "ok"]
        /\ outcome' = [outcome EXCEPT ![r] = SuccessEnvelope(engine[r].result[1])]
     \/ \E err \in ThrownValues :
          /\ bills' = [bills EXCEPT ![r][1].status = "failed"]
          /\ outcome' = [outcome EXCEPT ![r] = handleBookingErrors(err, ErrorTypeOf(op[r]))]
  /\ pc' = [pc EXCEPT ![r] = "done"]
  /\ UNCHANGED << DEFAULT_PLATFORM_PARAMS, started, op, cred, clientId, bookingId,
                  ownerRes, partnerRes, ctx, engine >>

\* A billing call of createRecurringBooking's forEach callbacks settles: no
\* one awaits the callbacks' promises.
RecurringBillingSettle(r) ==
  /\ op[r] = "recurring"
  /\ pc[r] = "done"
  /\ \E i \in 1..Len(bills[r]) :
       /\ bills[r][i].status = "pending"
       /\ \E s \in {"ok", "failed"} : bills' = [bills EXCEPT ![r][i].status = s]
  /\ UNCHANGED << DEFAULT_PLATFORM_PARAMS, started, pc, op, cred, clientId, bookingId,
                  ownerRes, partnerRes, ctx, engine, outcome >>

\* The response is sent and the request's objects are dropped.
Discard(r) ==
  /\ pc[r] = "done"
  /\ \A i \in 1..Len(bills[r]) : bills[r][i].status # "pending"
  /\ pc' = [pc EXCEPT ![r] = "idle"]
  /\ op' = [op EXCEPT ![r] = "create"]
  /\ cred' = [cred EXCEPT ![r] = "absent"]
  /\ clientId' = [clientId EXCEPT ![r] = NoClient]
  /\ bookingId' = [bookingId EXCEPT ![r] = NoBookingId]
  /\ ownerRes' = [ownerRes EXCEPT ![r] = NoOwnerRes]
  /\ partnerRes' = [partnerRes EXCEPT ![r] = "none"]
  /\ ctx' = [ctx EXCEPT ![r] = NoCtx]
  /\ engine' = [engine EXCEPT ![r] = NoEngine]
  /\ bills' = [bills EXCEPT ![r] = << >>]
  /\ outcome' = [outcome EXCEPT ![r] = NoOutcome]
  /\ UNCHANGED << DEFAULT_PLATFORM_PARAMS, started >>

\* One request is served at a time: a request arrives when no other is in
\* flight.
SerialReceive(r) ==
  /\ \A q \in RequestIds \ {r} : pc[q] = "idle"
  /\ Receive(r)

Next ==
  \E r \in RequestIds :
    \/ SerialReceive(r)
    \/ OwnerLookupDone(r)
    \/ PartnerLookupDone(r)
    \/ Assemble(r)
    \/ EngineReturn(r)
    \/ EngineRaise(r)
    \/ BillingReturn(r)
    \/ RecurringBillingSettle(r)
    \/ Discard(r)

Spec == Init /\ [][Next]_vars

\* Requests overlap: createBooking and cancelBooking requests arrive while
\* others are in flight, each with any client id (and no credential).
ConcurrentReceive(r) ==
  \E o \in {"create", "cancel"} :
    \E cl \in ClientIds :
      ReceiveRequest(r, o, "absent", cl, IF o = "cancel" THEN "12" ELSE NoBookingId)

ConcurrentNext ==
  \E r \in RequestIds :
    \/ ConcurrentReceive(r)
    \/ OwnerLookupDone(r)
    \/ PartnerLookupDone(r)
    \/ Assemble(r)
    \/ EngineReturn(r)
    \/ EngineRaise(r)
    \/ BillingReturn(r)
    \/ Discard(r)

ConcurrentSpec == Init /\ [][ConcurrentNext]_vars

\* ------------------------------------------------------------------ claims
\* The PartnerConfig fields of a handed context.
PlatformParamsOf(c) ==
  [ platformClientId |-> c.platformClientId,
    platformCancelUrl |-> c.platformCancelUrl,
    platformRescheduleUrl |-> c.platformRescheduleUrl,
    platformBookingUrl |-> c.platformBookingUrl,
    arePlatformEmailsEnabled |-> c.arePlatformEmailsEnabled ]

\* The PartnerConfig the record of client id `id` stands for.
ClientParams(id) == WriteClientParams(InitialPlatformParams, id, OAuthClients[id])

Failed(r) == \E i \in 1..Len(bills[r]) : bills[r][i].status = "failed"
Pending(r) == \E i \in 1..Len(bills[r]) : bills[r][i].status = "pending"

\* C1: whatever requests came before, a request without a client id, or whose
\* client lookup finds no record or raises, hands the engine the default
\* PartnerConfig (client id "", the three URLs "", emails disabled), and the
\* failed lookup does not end the request before its engine call.
C1_DefaultConfigWhenUnresolved ==
  \A r \in RequestIds :
    /\ (ctx[r].handed /\ (clientId[r] = NoClient \/ partnerRes[r] \in {"missing", "raised"}))
         => PlatformParamsOf(ctx[r]) = InitialPlatformParams
    /\ (partnerRes[r] \in {"missing", "raised"} /\ pc[r] = "done") => engine[r].call # "none"

\* C2: of two requests in flight with different client ids that both have a
\* record, each hands the engine its own client's id, URLs and emails flag.
C2_RequestsIsolated ==
  \A a \in RequestIds : \A b \in RequestIds \ {a} :
    ( /\ partnerRes[a] = "found" /\ partnerRes[b] = "found"
      /\ clientId[a] # clientId[b]
      /\ ctx[a].handed )
      => PlatformParamsOf(ctx[a]) = ClientParams(clientId[a])

\* C3: getOwnerId never raises, whatever the credential and whatever the key
\* store or the token introspection does, and a request of create, cancel,
\* recurring or instant that ended without an engine call is a cancel without
\* booking id.
C3_ResolutionNeverRaises ==
  \A r \in RequestIds :
    /\ ownerRes[r].kind # "raise"
    /\ (op[r] \in ContextOperations /\ pc[r] = "done" /\ engine[r].call = "none")
         => outcome[r].kind = "NotFoundException"

\* C4: a request has issued a billing call only if its engine call returned
\* successfully: none while the call is not issued or pending, none once it
\* raised.
C4_BillingOnlyAfterEngineSuccess ==
  \A r \in RequestIds : bills[r] # << >> => engine[r].state = "ok"

C4_Witness ==
  \E r \in RequestIds : Len(bills[r]) > 0 /\ engine[r].state = "ok" /\ pc[r] = "billing"

\* C5: a failure of the engine call or of a billing call ends the request with
\* a classified error, never with the success envelope.
C5_FailuresSurfaceClassified ==
  \A r \in RequestIds :
    /\ Failed(r) => outcome[r].kind = "HttpException"
    /\ engine[r].state = "failed" => outcome[r].kind = "HttpException"

\* C6: the success envelope is not returned while a billing call the request
\* issued is unfinished.
C6_ResponseAfterBilling ==
  \A r \in RequestIds : outcome[r].kind = "success" => ~Pending(r)

\* The billing calls of createBooking are as C7 says: one increaseUsage call
\* with the result's owner id, uid, start time and fromReschedule when the
\* three are present, none otherwise.
CreateUsageAsClaimed(r) ==
  LET res == engine[r].result[1] IN
  IF res.userId # None /\ res.uid # None /\ res.startTime # None
    THEN /\ Len(bills[r]) = 1
         /\ bills[r][1].fn = "increaseUsageByUserId"
         /\ bills[r][1].userId = res.userId[1]
         /\ bills[r][1].uid = res.uid[1]
         /\ bills[r][1].startTime = res.startTime[1]
         /\ bills[r][1].fromReschedule = res.fromReschedule
    ELSE bills[r] = << >>

\* C7 as stated: after a successful createBooking engine call the billing
\* calls are as above and the request ends with the success envelope carrying
\* the engine result.
C7_CreateUsageAndSuccess ==
  \A r \in RequestIds :
    (op[r] = "create" /\ engine[r].state = "ok")
      => /\ CreateUsageAsClaimed(r)
         /\ pc[r] = "done" => outcome[r] = SuccessEnvelope(engine[r].result[1])

\* C7 as amended: the billing calls are as above; the request ends with the
\* success envelope carrying the engine result unless the increaseUsage call
\* failed, and then with a classified error.
C7_CreateUsageAndOutcome ==
  \A r \in RequestIds :
    (op[r] = "create" /\ engine[r].state = "ok")
      => /\ CreateUsageAsClaimed(r)
         /\ pc[r] = "done" =>
              IF Failed(r) THEN outcome[r].kind = "HttpException"
                           ELSE outcome[r] = SuccessEnvelope(engine[r].result[1])

C7_Witness ==
  \E r \in RequestIds :
    /\ op[r] = "create" /\ pc[r] = "done" /\ outcome[r].kind = "success"
    /\ Len(bills[r]) = 1 /\ bills[r][1].status = "ok"
    /\ bills[r][1].fromReschedule # None

\* C8: after a successful cancellation the request has issued exactly one
\* cancelUsage call, keyed by the returned booking uid, when
\* onlyRemovedAttendee is false, and no billing call when it is true.
C8_CancelUsage ==
  \A r \in RequestIds :
    (op[r] = "cancel" /\ engine[r].state = "ok")
      => LET res == engine[r].result[1] IN
         IF res.onlyRemovedAttendee
           THEN bills[r] = << >>
           ELSE /\ Len(bills[r]) = 1
                /\ bills[r][1].fn = "cancelUsageByBookingUid"
                /\ bills[r][1].uid = res.bookingUid

C8_Witness ==
  \E r \in RequestIds :
    /\ op[r] = "cancel" /\ engine[r].state = "ok"
    /\ ~engine[r].result[1].onlyRemovedAttendee
    /\ Len(bills[r]) = 1 /\ bills[r][1].status = "ok"
    /\ pc[r] = "done" /\ outcome[r].kind = "success"

\* C9: a cancel request without booking id (absent or empty) ends with the
\* not-found error, with no engine call, no credential lookup, no client
\* lookup and no billing call.
C9_CancelWithoutId ==
  \A r \in RequestIds :
    (op[r] = "cancel" /\ bookingId[r] = NoBookingId /\ pc[r] # "idle")
      => /\ pc[r] = "done"
         /\ outcome[r].kind = "NotFoundException" /\ outcome[r].statusCode = 404
         /\ engine[r].call = "none"
         /\ ownerRes[r].kind = "none" /\ partnerRes[r] = "none"
         /\ ~ctx[r].handed
         /\ bills[r] = << >>

C9_Witness ==
  \E r \in RequestIds :
    op[r] = "cancel" /\ bookingId[r] = NoBookingId /\ outcome[r].kind = "NotFoundException"

\* C10: a markNoShow request issues no billing call, whether its engine call
\* succeeds or fails, and every other operation has a successful engine result
\* after which it issues one.
C10_OnlyNoShowNeverBills ==
  /\ \A r \in RequestIds : op[r] = "noShow" => bills[r] = << >>
  /\ \A res \in EngineResults("noShow") : UsageCalls("noShow", res, 0) = << >>
  /\ \A o \in Operations \ {"noShow"} :
       \E res \in EngineResults(o) : UsageCalls(o, res, 0) # << >>

C10_Witness ==
  \E r \in RequestIds :
    op[r] = "noShow" /\ engine[r].state = "ok" /\ outcome[r].kind = "success"

\* The value the engine call of request r threw.
Thrown(r) == engine[r].result[1]

\* The message the classifier makes up for an operation.
SynthesizedMessage(o) ==
  CASE o = "noShow" -> "Error while marking no-show."
    [] o = "recurring" -> "Error while creating recurring booking."
    [] o = "instant" -> "Error while creating instant booking."
    [] OTHER -> "Error while creating booking."

\* C11: when the engine call throws a domain error with a status code and a
\* message, the request ends with a classified error of exactly that status
\* code and message, whatever the operation.
C11_DomainErrorVerbatim ==
  \A r \in RequestIds :
    (engine[r].state = "failed" /\ Thrown(r).class = "HttpError"
       /\ Thrown(r).statusCode # None /\ Thrown(r).message # None)
      => /\ pc[r] = "done"
         /\ outcome[r].kind = "HttpException"
         /\ outcome[r].statusCode = Thrown(r).statusCode[1]
         /\ outcome[r].message = Thrown(r).message[1]

C11_Witness ==
  \E r \in RequestIds :
    /\ op[r] = "noShow" /\ engine[r].state = "failed"
    /\ Thrown(r) = HttpErrorValue(409, "slot taken")
    /\ outcome[r].statusCode = 409 /\ outcome[r].message = "slot taken"

\* C12: when the engine call throws something that is no domain error, the
\* request ends with status 500, and with the thrown failure's message if it
\* is an Error with a message, or the message made up for the operation if it
\* is no Error or an Error without message.
C12_GenericFailures ==
  \A r \in RequestIds :
    (engine[r].state = "failed" /\ Thrown(r).class # "HttpError")
      => /\ outcome[r].kind = "HttpException"
         /\ outcome[r].statusCode = 500
         /\ IF Thrown(r).class = "Error" /\ Thrown(r).message # None /\ Thrown(r).message # Some("")
              THEN outcome[r].message = Thrown(r).message[1]
              ELSE outcome[r].message = SynthesizedMessage(op[r])

\* The PartnerConfig a request is entitled to: its client's record if the
\* lookup found one, the default otherwise.
ResolvedParams(r) ==
  IF partnerRes[r] = "found" THEN ClientParams(clientId[r]) ELSE InitialPlatformParams

\* C13: in every context handed to the engine, noEmail is the negation of
\* the emailsEnabled of the PartnerConfig resolved for that request, and the
\* negation of the emails flag attached to the same context.
C13_NoEmailNegatesEmailsEnabled ==
  \A r \in RequestIds :
    ctx[r].handed
      => /\ ctx[r].noEmail = ~ResolvedParams(r).arePlatformEmailsEnabled
         /\ ctx[r].noEmail = ~ctx[r].arePlatformEmailsEnabled

\* C14: after a successful createInstantBooking engine call with owner id and
\* booking uid present, the request has issued exactly one increaseUsage call,
\* with that owner id and uid and with the clock reading taken after the call
\* returned plus 10 seconds as its time; with either missing, no call.
C14_InstantUsageDelayed ==
  \A r \in RequestIds :
    (op[r] = "instant" /\ engine[r].state = "ok")
      => LET res == engine[r].result[1] IN
         IF res.userId # None /\ res.bookingUid # None
           THEN /\ Len(bills[r]) = 1
                /\ bills[r][1].fn = "increaseUsageByUserId"
                /\ bills[r][1].userId = res.userId[1]
                /\ bills[r][1].uid = res.bookingUid[1]
                /\ bills[r][1].startTime = engine[r].now + 10
                /\ bills[r][1].startTime # engine[r].now
           ELSE bills[r] = << >>

C14_Witness ==
  \E r \in RequestIds :
    /\ op[r] = "instant" /\ engine[r].state = "ok" /\ engine[r].now = 55
    /\ Len(bills[r]) = 1 /\ bills[r][1].startTime = 65

\* C15: when the engine call of a create, cancel, create-recurring or
\* create-instant request has been issued, the request's getOwnerId lookup has
\* settled with a value and, if the request carries a client id, its
\* getOAuthClient lookup has settled too.
C15_LookupsBeforeEngine ==
  \A r \in RequestIds :
    (op[r] \in ContextOperations /\ engine[r].call # "none")
      => /\ ownerRes[r].kind = "ok"
         /\ clientId[r] # NoClient => partnerRes[r] \in {"found", "missing", "raised"}
         /\ clientId[r] = NoClient => partnerRes[r] = "none"

C15_Witness ==
  \E r \in RequestIds :
    /\ op[r] = "instant" /\ cred[r] = "accessToken" /\ clientId[r] = "A"
    /\ engine[r].call = "handleInstantMeeting" /\ engine[r].state = "pending"
    /\ ownerRes[r].kind = "ok" /\ partnerRes[r] = "found"

\* The positions of the returned bookings whose owner id, uid and start time
\* are all present.
CompleteBookings(list) ==
  { i \in 1..Len(list) :
      list[i].userId # None /\ list[i].uid # None /\ list[i].startTime # None }

\* Call i of request r settles with status s.
SettleAs(r, i, s) ==
  /\ RecurringBillingSettle(r)
  /\ bills'[r] = [bills[r] EXCEPT ![i].status = s]

\* C16: after a successful createRecurringBooking engine call, the
\* increaseUsage calls issued are as many as the returned bookings with owner
\* id, uid and start time all present, one for each of them and none for the
\* others; all of them are issued when the success envelope is the outcome;
\* and each call still pending can settle, either way, whatever the others'
\* status and after the response.
C16_RecurringUsage ==
  \A r \in RequestIds :
    (op[r] = "recurring" /\ engine[r].state = "ok")
      => LET list == engine[r].result[1]
             idx == CompleteBookings(list)
         IN /\ Len(bills[r]) = Cardinality(idx)
            /\ \A k \in 1..Len(bills[r]) :
                 /\ bills[r][k].fn = "increaseUsageByUserId"
                 /\ \E i \in idx :
                      /\ bills[r][k].userId = list[i].userId[1]
                      /\ bills[r][k].uid = list[i].uid[1]
                      /\ bills[r][k].startTime = list[i].startTime[1]
            /\ outcome[r].kind = "success" /\ outcome[r].data = Some(list)
            /\ \A k \in 1..Len(bills[r]) :
                 bills[r][k].status = "pending"
                   => \A s \in {"ok", "failed"} : ENABLED SettleAs(r, k, s)

C16_Witness ==
  \E r \in RequestIds :
    /\ op[r] = "recurring" /\ engine[r].state = "ok"
    /\ Len(engine[r].result[1]) = 2
    /\ outcome[r].kind = "success"
    /\ Len(bills[r]) = 2
    /\ bills[r][1].status = "pending" /\ bills[r][2].status = "failed"

\* C17: a request's engine call is the one of its operation; once issued it is
\* never issued again, once settled it never changes while the request lasts;
\* the billing calls of a request are issued once, with the engine's return,
\* and a settled billing call is never issued again.
C17_NoRetry ==
  [][ \A r \in RequestIds :
        /\ engine'[r].call # "none" => engine'[r].call = EngineCallOf(op'[r])
        /\ (engine[r].call = "none" /\ engine'[r].call # "none")
             => engine'[r].state = "pending" /\ bills[r] = << >> /\ outcome[r] = NoOutcome
        /\ engine[r].state = "pending"
             => engine'[r].call = engine[r].call
        /\ engine[r].state \in {"ok", "failed"}
             => engine'[r] = engine[r] \/ pc'[r] = "idle"
        /\ bills'[r] # bills[r]
             => \/ pc'[r] = "idle" /\ bills'[r] = << >>
                \/ bills[r] = << >> /\ engine[r].state = "pending" /\ engine'[r].state = "ok"
                \/ /\ Len(bills'[r]) = Len(bills[r])
                   /\ \A i \in 1..Len(bills[r]) :
                        /\ [bills'[r][i] EXCEPT !.status = "pending"]
                             = [bills[r][i] EXCEPT !.status = "pending"]
                        /\ bills[r][i].status # "pending" => bills'[r][i] = bills[r][i]
        /\ (engine[r].state = "failed" /\ pc'[r] # "idle") => bills'[r] = << >>
    ]_vars

C17_Witness ==
  \E r \in RequestIds :
    /\ op[r] = "cancel" /\ pc[r] = "done"
    /\ engine[r].call = "handleCancelBooking" /\ engine[r].state = "ok"
    /\ Len(bills[r]) = 1 /\ bills[r][1].status = "failed"
    /\ outcome[r].kind = "HttpException"

\* The messages of the throws that follow each handler's try block.
FallthroughMessages ==
  { "Could not create booking.", "Could not cancel booking.", "Could not mark no show.",
    "Could not create recurring booking.", "Could not create instant booking." }

\* C18: every request that has ended has exactly one of the success envelope,
\* a not-found error or an error classified by handleBookingErrors as its
\* outcome, and never one of the fallthrough failures.
C18_EndsClassified ==
  \A r \in RequestIds :
    pc[r] = "done"
      => /\ outcome[r].kind \in {"success", "NotFoundException", "HttpException"}
         /\ outcome[r].message \notin FallthroughMessages

\* C19: in every context handed to the engine the userId is the owner id
\* getOwnerId resolved, and -1 when it resolved none.
C19_PrincipalNeverAbsent ==
  \A r \in RequestIds :
    ctx[r].handed
      => /\ op[r] \in ContextOperations
         /\ IF ownerRes[r].v # None
              THEN ctx[r].userId = ownerRes[r].v[1]
              ELSE ctx[r].userId = -1

C19_Witness ==
  \E r \in RequestIds :
    /\ op[r] = "instant" /\ ctx[r].handed
    /\ ownerRes[r].kind = "ok" /\ ownerRes[r].v = None
    /\ ctx[r].userId = -1
====
